---- MODULE Spec2Model ----
(***************************************************************************)
(* Real-time streaming subsystem of kiwoom-restful (kiwoom/api.py):        *)
(* connection lifecycle (connect / close), the receive loop that decodes   *)
(* and dispatches inbound frames, the callback registry with its shared    *)
(* semaphore, and the REG / REMOVE subscription calls.                     *)
(*                                                                         *)
(* One action is one run of a coroutine between two suspension points of   *)
(* the asyncio event loop (single-threaded, cooperative).                  *)
(***************************************************************************)
EXTENDS Integers, Sequences, FiniteSets, TLC

VARIABLES
    token,        \* Client.token() is non-empty
    queue,        \* API.queue: raw frames put by the socket, FIFO
    socket,       \* API.socket: [open, stop]
    stopEvent,    \* API._stop_task_event.is_set()
    readTask,     \* API._read_socket_task: 0 (None) or an index of tasks
    tasks,        \* every receive task ever created: [pc, cancel]
    callbacks,    \* API._callbacks: key -> handler (a defaultdict)
    semaphore,    \* API._semaphore: free permits
    invs,         \* callback tasks made by asyncio.create_task, in creation order
    taken,        \* frames removed from the queue, in order: [raw, by, err]
    sent,         \* frames written to the transport, in order
    call,         \* per caller: position inside connect() / close()
    last,         \* outcome of the caller's most recent API call
    nRecv,        \* frames delivered by the server so far
    nCalls        \* subscription / registration calls made so far

vars == <<token, queue, socket, stopEvent, readTask, tasks, callbacks,
          semaphore, invs, taken, sent, call, last, nRecv, nCalls>>

-----------------------------------------------------------------------------
(* Bounds of the model *)

MaxFrames == 2          \* frames the server delivers in one behaviour
MaxConnects == 2        \* receive tasks created in one behaviour
MaxCalls == 1           \* subscription / registration calls in one behaviour
MaxConcurrency == 2     \* permits of the semaphore in the model
MaxRegs == 2            \* add_callback_on_real_data calls in one behaviour

(* Program constants *)

MaxCodes == 100

\* config.http.WEBSOCKET_MAX_CONCURRENCY is 1000; the model runs the same
\* semaphore with MaxConcurrency permits.
WEBSOCKET_MAX_CONCURRENCY == MaxConcurrency

\* the caller that makes one call after the other, and the callers (tasks of
\* the API's user) whose calls can overlap
Callers == {1}
Overlapping == {1, 2}

-----------------------------------------------------------------------------
(* Raw frames.  A raw frame is the JSON text; it is modelled by the fields  *)
(* the program can observe.  json = FALSE is text that is not valid JSON    *)
(* for the Real struct.                                                     *)

Item(type) == [type |-> type, item |-> "005930", values |-> "v"]

\* return_code is "" in a frame that carries none
RawFrame(trnm, hasData, data, rc) ==
    [json |-> TRUE, trnm |-> trnm, hasData |-> hasData, data |-> data,
     return_code |-> rc, val |-> "abc"]

NoCode == ""

FramePing == RawFrame("PING", FALSE, <<>>, NoCode)
FrameLoginOk == RawFrame("LOGIN", FALSE, <<>>, "0")
FrameLoginFail == RawFrame("LOGIN", FALSE, <<>>, "1")
FrameRegAck == RawFrame("REG", FALSE, <<>>, "0")
FrameRealEmpty == RawFrame("REAL", TRUE, <<>>, NoCode)
FrameRealMixed == RawFrame("REAL", TRUE, <<Item("0B"), Item("0D"), Item("0B")>>, NoCode)
FrameRealPing == RawFrame("REAL", TRUE, <<Item("PING")>>, NoCode)
FrameRealNoData == RawFrame("REAL", FALSE, <<>>, NoCode)
FrameGarbage == [json |-> FALSE, trnm |-> "", hasData |-> FALSE, data |-> <<>>,
                 return_code |-> NoCode, val |-> "abc"]

Frames == {FramePing, FrameLoginOk, FrameLoginFail, FrameRegAck, FrameRealEmpty,
           FrameRealMixed, FrameRealPing, FrameRealNoData, FrameGarbage}

-----------------------------------------------------------------------------
(* msgspec.json.Decoder(type=Real): only trnm and, per item, type and item  *)
(* are kept; text that is not JSON for Real does not decode.                *)

\* a struct whose data field defaults to an empty list
DecodeDataDefaultsEmpty(raw) ==
    IF ~raw.json
    THEN [ok |-> FALSE, trnm |-> "", hasData |-> FALSE, data |-> <<>>]
    ELSE [ok |-> TRUE, trnm |-> raw.trnm, hasData |-> TRUE,
          data |-> [i \in 1..Len(raw.data) |->
                      [type |-> raw.data[i].type, item |-> raw.data[i].item]]]

Decode(raw) ==
    IF ~raw.json
    THEN [ok |-> FALSE, trnm |-> "", hasData |-> FALSE, data |-> <<>>]
    ELSE [ok |-> TRUE, trnm |-> raw.trnm, hasData |-> raw.hasData,
          data |-> [i \in 1..Len(raw.data) |->
                      [type |-> raw.data[i].type, item |-> raw.data[i].item]]]

-----------------------------------------------------------------------------
(* The callback registry: a defaultdict whose factory wraps print(msg).     *)

DefaultHandler == "default"
PingHandler == "callback_on_ping"
LoginHandler == "callback_on_login"
UserHandlers == {"h1", "h2"}

\* _add_default_callback_on_real_data: the two entries made at construction
DefaultCallbacks == [k \in {"PING", "LOGIN"} |->
                        IF k = "PING" THEN PingHandler ELSE LoginHandler]

\* a plain dict: KeyError for a key that was never registered
LookupRaisesKeyError(cbs, key) == key \notin DOMAIN cbs

\* self._callbacks[key] raises for no key: a missing key calls the factory
LookupRaises(cbs, key) == FALSE

\* the wrapper self._callbacks[key] evaluates to
Lookup(cbs, key) == IF key \in DOMAIN cbs THEN cbs[key] ELSE DefaultHandler

\* a lookup that stores nothing, as dict.get(key, default) would
AfterLookupPlain(cbs, key) == cbs

\* the mapping after self._callbacks[key]: the defaultdict stores what its
\* factory made for a missing key
AfterLookup(cbs, key) ==
    IF key \in DOMAIN cbs THEN cbs
    ELSE [k \in DOMAIN cbs \cup {key} |->
            IF k = key THEN DefaultHandler ELSE cbs[k]]

\* a registration that stores the handler under the key as it was given
UpperAsGiven(key) == key

\* str.upper() on the keys the model uses
Upper(key) ==
    CASE key = "ping" -> "PING"
      [] key = "login" -> "LOGIN"
      [] key = "0b" -> "0B"
      [] key = "0d" -> "0D"
      [] key = "real" -> "REAL"
      [] OTHER -> key

-----------------------------------------------------------------------------
(* _on_receive_websocket: what one frame does (the body of the second try)  *)

NoErr == "none"

\* a loop that awaits the callback where the code creates a task for it: the
\* handler has returned when the loop goes on
NewInvAwaited(fid, idx, key, cbs, raw) ==
    [fid |-> fid, idx |-> idx, key |-> key, handler |-> Lookup(cbs, key),
     raw |-> raw, st |-> "done", exc |-> NoErr]

\* the callback task made by asyncio.create_task(self._callbacks[key](raw))
NewInv(fid, idx, key, cbs, raw) ==
    [fid |-> fid, idx |-> idx, key |-> key, handler |-> Lookup(cbs, key),
     raw |-> raw, st |-> "scheduled", exc |-> NoErr]

\* a loop that looks every item up by the frame's trnm
DispatchItemsByTrnm(data, i, raw, cbs, fid, acc) ==
    [err |-> NoErr, cbs |-> AfterLookup(cbs, "REAL"),
     new |-> [k \in 1..Len(data) |-> NewInv(fid, k, "REAL", cbs, raw)]]

\* for data in msg.data: asyncio.create_task(self._callbacks[data.type](raw))
RECURSIVE DispatchItems(_, _, _, _, _, _)
DispatchItems(data, i, raw, cbs, fid, acc) ==
    IF i > Len(data)
    THEN [err |-> NoErr, cbs |-> cbs, new |-> acc]
    ELSE IF LookupRaises(cbs, data[i].type)
         THEN [err |-> "schedule", cbs |-> cbs, new |-> acc]
         ELSE DispatchItems(data, i + 1, raw, AfterLookup(cbs, data[i].type), fid,
                            Append(acc, NewInv(fid, i, data[i].type, cbs, raw)))

\* case _: asyncio.create_task(self._callbacks[msg.trnm](raw))
DispatchTrnm(trnm, raw, cbs, fid) ==
    IF LookupRaises(cbs, trnm)
    THEN [err |-> "schedule", cbs |-> cbs, new |-> <<>>]
    ELSE [err |-> NoErr, cbs |-> AfterLookup(cbs, trnm),
          new |-> <<NewInv(fid, 0, trnm, cbs, raw)>>]

\* a loop without the match on msg.trnm: every frame is looked up by its trnm
DispatchWithoutMatch(raw, cbs, fid) ==
    LET msg == Decode(raw) IN
    IF ~msg.ok
    THEN [err |-> "decode", cbs |-> cbs, new |-> <<>>]
    ELSE DispatchTrnm(msg.trnm, raw, cbs, fid)

\* decode, then match msg.trnm; iterating msg.data = None is a TypeError
Dispatch(raw, cbs, fid) ==
    LET msg == Decode(raw) IN
    IF ~msg.ok
    THEN [err |-> "decode", cbs |-> cbs, new |-> <<>>]
    ELSE IF msg.trnm = "REAL"
         THEN IF ~msg.hasData
              THEN [err |-> "schedule", cbs |-> cbs, new |-> <<>>]
              ELSE DispatchItems(msg.data, 1, raw, cbs, fid, <<>>)
         ELSE DispatchTrnm(msg.trnm, raw, cbs, fid)

\* a loop over a queue that hands out its newest frame first
ProcessNewest(s, t) ==
    LET raw == s.q[Len(s.q)]
        d == Dispatch(raw, s.cbs, Len(s.taken) + 1)
    IN [q |-> SubSeq(s.q, 1, Len(s.q) - 1), cbs |-> d.cbs, invs |-> s.invs \o d.new,
        taken |-> Append(s.taken, [raw |-> raw, by |-> t, err |-> d.err]),
        exit |-> IF d.err = NoErr THEN "run" ELSE "error"]

\* one iteration after queue.get() returned: dispatch, then queue.task_done()
ProcessHead(s, t) ==
    LET raw == Head(s.q)
        d == Dispatch(raw, s.cbs, Len(s.taken) + 1)
    IN [q |-> Tail(s.q), cbs |-> d.cbs, invs |-> s.invs \o d.new,
        taken |-> Append(s.taken, [raw |-> raw, by |-> t, err |-> d.err]),
        exit |-> IF d.err = NoErr THEN "run" ELSE "error"]

\* while not self._stop_task_event.is_set(): queue.get() returns at once while
\* the queue holds a frame, so the loop runs on without yielding to the event
\* loop until the queue is empty, the stop event is set, or a frame fails.
RECURSIVE RunLoop(_, _, _)
RunLoop(s, stop, t) ==
    IF stop THEN [s EXCEPT !.exit = "stopped"]
    ELSE IF s.q = <<>> THEN [s EXCEPT !.exit = "wait"]
    ELSE LET s2 == ProcessHead(s, t) IN
         IF s2.exit = "error" THEN s2 ELSE RunLoop(s2, stop, t)

-----------------------------------------------------------------------------
(* Initial state: API.__init__                                              *)

\* a semaphore made with one permit too few
SemaphoreInitShort == WEBSOCKET_MAX_CONCURRENCY - 1

\* a semaphore made with one permit too many
SemaphoreInitExtra == WEBSOCKET_MAX_CONCURRENCY + 1

\* asyncio.Semaphore(config.http.WEBSOCKET_MAX_CONCURRENCY)
SemaphoreInit == WEBSOCKET_MAX_CONCURRENCY

NoCall == [op |-> "none", args |-> <<>>, exc |-> NoErr, before |-> 0]

Init ==
    /\ token = FALSE
    /\ queue = <<>>
    /\ socket = [open |-> FALSE, stop |-> FALSE]
    /\ stopEvent = FALSE
    /\ readTask = 0
    /\ tasks = <<>>
    /\ callbacks = DefaultCallbacks
    /\ semaphore = SemaphoreInit
    /\ invs = <<>>
    /\ taken = <<>>
    /\ sent = <<>>
    /\ call = [c \in Overlapping |-> [pc |-> "idle", task |-> 0]]
    /\ last = NoCall
    /\ nRecv = 0
    /\ nCalls = 0

-----------------------------------------------------------------------------
(* The socket (kiwoom.http.socket.Socket)                                   *)

SocketConnected == [open |-> TRUE, stop |-> FALSE]
SocketClosed == [open |-> FALSE, stop |-> TRUE]

\* the socket's reader puts one frame the server pushed on the queue
ServerFrame(f) ==
    /\ socket.open /\ ~socket.stop
    /\ nRecv < MaxFrames
    /\ queue' = Append(queue, f)
    /\ nRecv' = nRecv + 1
    /\ UNCHANGED <<token, socket, stopEvent, readTask, tasks, callbacks,
                   semaphore, invs, taken, sent, call, last, nCalls>>

-----------------------------------------------------------------------------
(* The receive task: _on_receive_websocket                                  *)

\* A task is recorded as [pc, cancel, since]: where it is suspended or how
\* it ended, whether cancel() was called on it, and (history, not a field of
\* the program) how many frames the socket had received when the task was
\* created: the frames of its own connection are those received after that.
TaskDone(task) == task.pc \in {"done", "cancelled", "failed"}

\* an except clause that re-raises without closing
ClosesBeforeRaiseSkipped == FALSE

\* except Exception as err: await self.close() comes before the raise
ClosesBeforeRaise == TRUE

LoopState == [q |-> queue, cbs |-> callbacks, invs |-> invs, taken |-> taken,
              exit |-> "run"]

\* the state after the task ran from one suspension point to the next
Suspend(t, r) ==
    /\ queue' = r.q
    /\ callbacks' = r.cbs
    /\ invs' = r.invs
    /\ taken' = r.taken
    /\ IF r.exit = "error"
       THEN IF ClosesBeforeRaise
            THEN \* close() runs up to its first await: the stop event is set
                 /\ stopEvent' = TRUE
                 /\ tasks' = [tasks EXCEPT ![t].pc = "closing"]
            ELSE /\ tasks' = [tasks EXCEPT ![t].pc = "failed"]
                 /\ UNCHANGED stopEvent
       ELSE /\ tasks' = [tasks EXCEPT ![t].pc =
                            IF r.exit = "stopped" THEN "done" ELSE "get"]
            /\ UNCHANGED stopEvent
    /\ UNCHANGED <<token, socket, readTask, semaphore, sent, call, last,
                   nRecv, nCalls>>

\* first run of the task: the while test, then the loop
TaskStart(t) ==
    /\ tasks[t].pc = "start" /\ ~tasks[t].cancel
    /\ Suspend(t, RunLoop(LoopState, stopEvent, t))

\* the task waited in queue.get() and a frame arrived: that frame is taken
\* whatever the stop event says, then the loop goes on from its while test
TaskWake(t) ==
    /\ tasks[t].pc = "get" /\ ~tasks[t].cancel
    /\ queue # <<>>
    /\ LET s1 == ProcessHead(LoopState, t) IN
       Suspend(t, IF s1.exit = "error" THEN s1 ELSE RunLoop(s1, stopEvent, t))

\* rest of close() inside the except clause (socket.close(), Client.close()),
\* then raise Exception("Failed to handling websocket data.")
TaskCloseRaise(t) ==
    /\ tasks[t].pc = "closing" /\ ~tasks[t].cancel
    /\ socket' = SocketClosed
    /\ tasks' = [tasks EXCEPT ![t].pc = "failed"]
    /\ UNCHANGED <<token, queue, stopEvent, readTask, callbacks, semaphore,
                   invs, taken, sent, call, last, nRecv, nCalls>>

\* a loop without the except clause around queue.get(): the CancelledError
\* ends the task wherever it is thrown
TaskCancelledUncaught(t) ==
    /\ tasks[t].cancel
    /\ tasks[t].pc \in {"start", "get", "closing"}
    /\ tasks' = [tasks EXCEPT ![t].pc = "cancelled"]
    /\ UNCHANGED <<token, queue, socket, stopEvent, readTask, callbacks,
                   semaphore, invs, taken, sent, call, last, nRecv, nCalls>>

\* CancelledError thrown into the task where it is suspended: caught around
\* queue.get() (break, a normal return), not caught anywhere else
TaskCancelled(t) ==
    /\ tasks[t].cancel
    /\ tasks[t].pc \in {"start", "get", "closing"}
    /\ tasks' = [tasks EXCEPT ![t].pc =
                    IF tasks[t].pc = "get" THEN "done" ELSE "cancelled"]
    /\ UNCHANGED <<token, queue, socket, stopEvent, readTask, callbacks,
                   semaphore, invs, taken, sent, call, last, nRecv, nCalls>>

-----------------------------------------------------------------------------
(* Socket.send: a str goes out as it is, a dict as its JSON text; nothing   *)
(* can be written to a transport that is not open.                          *)

\* by: the callback task that sent it, 0 for a call of the API's user
Outbound(fmt, body, by) == [fmt |-> fmt, body |-> body, by |-> by]

SendRaises == ~socket.open

-----------------------------------------------------------------------------
(* Callback tasks: the wrapper of utils.wrap_sync_callback /                *)
(* wrap_async_callback around a handler, run as its own task.               *)

Executing == {i \in 1..Len(invs) : invs[i].st = "running"}
Waiting == {i \in 1..Len(invs) : invs[i].st = "scheduled"}

\* the wrapper acquires a permit; tasks reach the semaphore in creation order
InvStart(i) ==
    /\ invs[i].st = "scheduled"
    /\ \A j \in 1..(i - 1) : invs[j].st # "scheduled"
    /\ semaphore > 0
    /\ semaphore' = semaphore - 1
    /\ invs' = [invs EXCEPT ![i].st = "running"]
    /\ UNCHANGED <<token, queue, socket, stopEvent, readTask, tasks, callbacks,
                   taken, sent, call, last, nRecv, nCalls>>

\* callback_on_login: return_code other than 0 (or none) raises RuntimeError
LoginRaises(raw) == raw.return_code # "0"

\* what the handler body raises, NoErr when it returns
HandlerExc(inv) ==
    CASE inv.handler = PingHandler /\ SendRaises -> "ConnectionError"
      [] inv.handler = LoginHandler /\ LoginRaises(inv.raw) -> "LoginFailure"
      [] OTHER -> NoErr

\* a ping callback that sends the decoded message, not the raw text
HandlerSendsDecoded(i) ==
    IF invs[i].handler = PingHandler
    THEN <<Outbound("json", Decode(invs[i].raw), i)>>
    ELSE <<>>

\* what the handler body of callback task i writes to the transport;
\* callback_on_ping: await self.socket.send(raw)
HandlerSends(i) ==
    IF invs[i].handler = PingHandler
    THEN <<Outbound("text", invs[i].raw, i)>>
    ELSE <<>>

\* the handler body ends (return or raise) and the wrapper releases the permit
InvFinish(i) ==
    /\ invs[i].st = "running"
    /\ LET exc == HandlerExc(invs[i]) IN
       /\ invs' = [invs EXCEPT ![i].st = IF exc = NoErr THEN "done" ELSE "failed",
                               ![i].exc = exc]
       /\ sent' = IF exc = NoErr THEN sent \o HandlerSends(i) ELSE sent
    /\ semaphore' = semaphore + 1
    /\ UNCHANGED <<token, queue, socket, stopEvent, readTask, tasks, callbacks,
                   taken, call, last, nRecv, nCalls>>

-----------------------------------------------------------------------------
(* API.connect, one action per stretch between awaits                       *)

\* connect() that never finds a task to cancel
PriorTaskNeverRunning == FALSE

\* if self._read_socket_task and not self._read_socket_task.done()
PriorTaskRunning == readTask # 0 /\ ~TaskDone(tasks[readTask])

\* the caller enters connect() and awaits Client.connect(appkey, secretkey)
ConnectBegin(c) ==
    /\ call[c].pc = "idle"
    /\ Len(tasks) < MaxConnects
    /\ call' = [call EXCEPT ![c].pc = "token"]
    /\ last' = [op |-> "connect", args |-> <<>>, exc |-> NoErr, before |-> Len(sent)]
    /\ UNCHANGED <<token, queue, socket, stopEvent, readTask, tasks, callbacks,
                   semaphore, invs, taken, sent, nRecv, nCalls>>

\* Client.connect returned with or without a token; the token test; the
\* cancellation of a running task, up to await self._read_socket_task, or
\* else socket._stop.set(), up to await self.socket.connect
ConnectToken(c, tok) ==
    /\ call[c].pc = "token"
    /\ token' = tok
    /\ IF ~tok
       THEN /\ call' = [call EXCEPT ![c].pc = "idle"]
            /\ last' = [last EXCEPT !.exc = "AuthenticationError"]
            /\ UNCHANGED <<stopEvent, tasks, socket>>
       ELSE IF PriorTaskRunning
            THEN /\ stopEvent' = TRUE
                 /\ tasks' = [tasks EXCEPT ![readTask].cancel = TRUE]
                 /\ call' = [call EXCEPT ![c] = [pc |-> "await_task", task |-> readTask]]
                 /\ UNCHANGED <<socket, last>>
            ELSE /\ socket' = [socket EXCEPT !.stop = TRUE]
                 /\ call' = [call EXCEPT ![c].pc = "open"]
                 /\ UNCHANGED <<stopEvent, tasks, last>>
    /\ UNCHANGED <<queue, readTask, callbacks, semaphore, invs, taken, sent,
                   nRecv, nCalls>>

\* await self._read_socket_task returned (CancelledError suppressed);
\* socket._stop.set(), up to await self.socket.connect
ConnectAwaited(c) ==
    /\ call[c].pc = "await_task"
    /\ TaskDone(tasks[call[c].task])
    /\ socket' = [socket EXCEPT !.stop = TRUE]
    /\ call' = [call EXCEPT ![c] = [pc |-> "open", task |-> 0]]
    /\ UNCHANGED <<token, queue, stopEvent, readTask, tasks, callbacks,
                   semaphore, invs, taken, sent, last, nRecv, nCalls>>

\* a connect() that clears the stop event and creates the receive task
\* before it awaits socket.connect, so also when socket.connect raises
ConnectOpenStartsFirst(c, ok) ==
    /\ call[c].pc = "open"
    /\ stopEvent' = FALSE
    /\ tasks' = Append(tasks, [pc |-> "start", cancel |-> FALSE, since |-> nRecv])
    /\ readTask' = Len(tasks) + 1
    /\ IF ok
       THEN socket' = SocketConnected /\ UNCHANGED last
       ELSE socket' = SocketClosed /\ last' = [last EXCEPT !.exc = "ConnectionError"]
    /\ call' = [call EXCEPT ![c].pc = "idle"]
    /\ UNCHANGED <<token, queue, callbacks, semaphore, invs, taken, sent,
                   nRecv, nCalls>>

\* socket.connect returned or raised; on return the stop event is cleared and
\* the receive task is created
ConnectOpen(c, ok) ==
    /\ call[c].pc = "open"
    /\ IF ok
       THEN /\ socket' = SocketConnected
            /\ stopEvent' = FALSE
            /\ tasks' = Append(tasks, [pc |-> "start", cancel |-> FALSE,
                                       since |-> nRecv])
            /\ readTask' = Len(tasks) + 1
            /\ UNCHANGED last
       ELSE /\ socket' = SocketClosed
            /\ last' = [last EXCEPT !.exc = "ConnectionError"]
            /\ UNCHANGED <<stopEvent, tasks, readTask>>
    /\ call' = [call EXCEPT ![c].pc = "idle"]
    /\ UNCHANGED <<token, queue, callbacks, semaphore, invs, taken, sent,
                   nRecv, nCalls>>

-----------------------------------------------------------------------------
(* API.close                                                                *)

\* a close() that flips the stop event where the code sets it
CloseBeginToggles(c) ==
    /\ call[c].pc = "idle"
    /\ stopEvent' = ~stopEvent
    /\ call' = [call EXCEPT ![c].pc = "close"]
    /\ last' = [op |-> "close", args |-> <<>>, exc |-> NoErr, before |-> Len(sent)]
    /\ UNCHANGED <<token, queue, socket, readTask, tasks, callbacks, semaphore,
                   invs, taken, sent, nRecv, nCalls>>

\* self._stop_task_event.set(), up to await self.socket.close()
CloseBegin(c) ==
    /\ call[c].pc = "idle"
    /\ stopEvent' = TRUE
    /\ call' = [call EXCEPT ![c].pc = "close"]
    /\ last' = [op |-> "close", args |-> <<>>, exc |-> NoErr, before |-> Len(sent)]
    /\ UNCHANGED <<token, queue, socket, readTask, tasks, callbacks, semaphore,
                   invs, taken, sent, nRecv, nCalls>>

\* socket.close() and Client.close() returned
CloseEnd(c) ==
    /\ call[c].pc = "close"
    /\ socket' = SocketClosed
    /\ call' = [call EXCEPT ![c].pc = "idle"]
    /\ UNCHANGED <<token, queue, stopEvent, readTask, tasks, callbacks,
                   semaphore, invs, taken, sent, last, nRecv, nCalls>>

-----------------------------------------------------------------------------
(* Subscription calls: register_tick, register_hoga, remove_register        *)

\* lists of codes of a given length, in two orders
Codes(n, order) == [i \in 1..n |-> IF order = "asc" THEN i ELSE n + 1 - i]
CodeLens == {0, 2, MaxCodes, MaxCodes + 1}
CodeLists == {Codes(n, o) : n \in CodeLens, o \in {"asc", "desc"}}
Groups == {"", "1"}
Refresh == {"0", "1"}

\* the type argument of remove_register: a str or a list of str
StrArg(v) == [isStr |-> TRUE, v |-> v]
ListArg(v) == [isStr |-> FALSE, v |-> v]
TypeArgs == {StrArg(""), StrArg("0B"), ListArg(<<>>), ListArg(<<"0B">>),
             ListArg(<<"0B", "0D">>)}

\* a length check that is off by one
CodesAcceptedBelow(codes) == Len(codes) < MaxCodes

\* assert len(codes) <= 100
CodesAccepted(codes) == Len(codes) <= MaxCodes

\* register_hoga copied from register_tick with the feed type left as it was
RegFrameAlwaysTick(feed, grp_no, codes, refresh) ==
    [trnm |-> "REG", grp_no |-> grp_no, refresh |-> refresh,
     data |-> <<[item |-> codes, type |-> <<"0B">>]>>]

\* the dict handed to socket.send by register_tick ("0B") / register_hoga ("0D")
RegFrame(feed, grp_no, codes, refresh) ==
    [trnm |-> "REG", grp_no |-> grp_no, refresh |-> refresh,
     data |-> <<[item |-> codes, type |-> <<feed>>]>>]

Register(c, op, feed, grp_no, codes, refresh) ==
    /\ call[c].pc = "idle"
    /\ nCalls < MaxCalls
    /\ nCalls' = nCalls + 1
    /\ LET exc == IF ~CodesAccepted(codes) THEN "InvalidArgument"
                  ELSE IF SendRaises THEN "ConnectionError" ELSE NoErr
       IN /\ last' = [op |-> op, args |-> <<grp_no, codes, refresh>>, exc |-> exc,
                      before |-> Len(sent)]
          /\ sent' = IF exc = NoErr
                     THEN Append(sent, Outbound("json", RegFrame(feed, grp_no, codes, refresh), 0))
                     ELSE sent
    /\ UNCHANGED <<token, queue, socket, stopEvent, readTask, tasks, callbacks,
                   semaphore, invs, taken, call, nRecv>>

RegisterTick(c, grp_no, codes, refresh) ==
    Register(c, "register_tick", "0B", grp_no, codes, refresh)

RegisterHoga(c, grp_no, codes, refresh) ==
    Register(c, "register_hoga", "0D", grp_no, codes, refresh)

\* Python truth value of a str / a list argument
Truthy(x) == IF x.isStr THEN x.v # "" ELSE x.v # <<>>

\* a guard that returns only when both arguments are empty
RemoveSkipsBothEmpty(grp_no, type) == grp_no = "" /\ ~Truthy(type)

\* if not grp_no or not type: return
RemoveSkips(grp_no, type) == grp_no = "" \/ ~Truthy(type)

\* if isinstance(type, str): type = [type]
TypeList(type) == IF type.isStr THEN <<type.v>> ELSE type.v

RemoveFrame(grp_no, type) ==
    [trnm |-> "REMOVE", grp_no |-> grp_no, refresh |-> "",
     data |-> <<[type |-> TypeList(type)]>>]

RemoveRegister(c, grp_no, type) ==
    /\ call[c].pc = "idle"
    /\ nCalls < MaxCalls
    /\ nCalls' = nCalls + 1
    /\ LET exc == IF ~RemoveSkips(grp_no, type) /\ SendRaises
                  THEN "ConnectionError" ELSE NoErr
       IN /\ last' = [op |-> "remove_register", args |-> <<grp_no, type>>,
                      exc |-> exc, before |-> Len(sent)]
          /\ sent' = IF ~RemoveSkips(grp_no, type) /\ exc = NoErr
                     THEN Append(sent, Outbound("json", RemoveFrame(grp_no, type), 0))
                     ELSE sent
    /\ UNCHANGED <<token, queue, socket, stopEvent, readTask, tasks, callbacks,
                   semaphore, invs, taken, call, nRecv>>

-----------------------------------------------------------------------------
(* add_callback_on_real_data                                                *)

RegKeys == {"ping", "LOGIN", "0b", "0D", "REAL"}

AddCallback(c, real_type, h) ==
    /\ call[c].pc = "idle"
    /\ nCalls < MaxRegs
    /\ nCalls' = nCalls + 1
    /\ callbacks' = [k \in DOMAIN callbacks \cup {Upper(real_type)} |->
                        IF k = Upper(real_type) THEN h ELSE callbacks[k]]
    /\ last' = [op |-> "add_callback_on_real_data", args |-> <<real_type, h>>,
                exc |-> NoErr, before |-> Len(sent)]
    /\ UNCHANGED <<token, queue, socket, stopEvent, readTask, tasks, semaphore,
                   invs, taken, sent, call, nRecv>>

-----------------------------------------------------------------------------

Next ==
    \/ \E f \in Frames : ServerFrame(f)
    \/ \E t \in 1..Len(tasks) : TaskStart(t)
    \/ \E t \in 1..Len(tasks) : TaskWake(t)
    \/ \E t \in 1..Len(tasks) : TaskCloseRaise(t)
    \/ \E t \in 1..Len(tasks) : TaskCancelled(t)
    \/ \E i \in 1..Len(invs) : InvStart(i)
    \/ \E i \in 1..Len(invs) : InvFinish(i)
    \/ \E c \in Callers : ConnectBegin(c)
    \/ \E c \in Callers, tok \in BOOLEAN : ConnectToken(c, tok)
    \/ \E c \in Callers : ConnectAwaited(c)
    \/ \E c \in Callers, ok \in BOOLEAN : ConnectOpen(c, ok)
    \/ \E c \in Callers : CloseBegin(c)
    \/ \E c \in Callers : CloseEnd(c)
    \/ \E c \in Callers, g \in Groups, cs \in CodeLists, r \in Refresh :
          RegisterTick(c, g, cs, r)
    \/ \E c \in Callers, g \in Groups, cs \in CodeLists, r \in Refresh :
          RegisterHoga(c, g, cs, r)
    \/ \E c \in Callers, g \in Groups, ty \in TypeArgs : RemoveRegister(c, g, ty)
    \/ \E c \in Callers, k \in RegKeys, h \in UserHandlers : AddCallback(c, k, h)

Spec == Init /\ [][Next]_vars

-----------------------------------------------------------------------------
(* Scenarios: the same actions over the same state, each with the calls and *)
(* frames one group of properties is about.  Spec above allows every call   *)
(* with every argument at once; the scenarios are what TLC explores in      *)
(* full.                                                                    *)

\* one connection, every kind of frame, close()
NextDispatch ==
    \/ \E f \in Frames : ServerFrame(f)
    \/ \E t \in 1..Len(tasks) : TaskStart(t)
    \/ \E t \in 1..Len(tasks) : TaskWake(t)
    \/ \E t \in 1..Len(tasks) : TaskCloseRaise(t)
    \/ \E i \in 1..Len(invs) : InvStart(i)
    \/ \E i \in 1..Len(invs) : InvFinish(i)
    \/ \E c \in Callers : ConnectBegin(c) /\ tasks = <<>>
    \/ \E c \in Callers, tok \in BOOLEAN : ConnectToken(c, tok)
    \/ \E c \in Callers, ok \in BOOLEAN : ConnectOpen(c, ok)
    \/ \E c \in Callers : CloseBegin(c)
    \/ \E c \in Callers : CloseEnd(c)

SpecDispatch == Init /\ [][NextDispatch]_vars

\* the event loop runs every callback task that can run, and handler bodies end
MaxInvs == MaxFrames * Len(FrameRealMixed.data)

FairDispatch ==
    /\ WF_vars(\E i \in 1..Len(invs) : InvStart(i))
    /\ WF_vars(\E i \in 1..Len(invs) : InvFinish(i))

SpecDispatchFair == SpecDispatch /\ FairDispatch

\* connect() and close() called again and again, one call after the other;
\* a frame that dispatches and two that fail
ReconnectFrames == {FramePing, FrameGarbage, FrameRealNoData}

NextReconnect ==
    \/ \E f \in ReconnectFrames : ServerFrame(f)
    \/ \E t \in 1..Len(tasks) : TaskStart(t)
    \/ \E t \in 1..Len(tasks) : TaskWake(t)
    \/ \E t \in 1..Len(tasks) : TaskCloseRaise(t)
    \/ \E t \in 1..Len(tasks) : TaskCancelled(t)
    \/ \E i \in 1..Len(invs) : InvStart(i)
    \/ \E i \in 1..Len(invs) : InvFinish(i)
    \/ \E c \in Callers : ConnectBegin(c)
    \/ \E c \in Callers, tok \in BOOLEAN : ConnectToken(c, tok)
    \/ \E c \in Callers : ConnectAwaited(c)
    \/ \E c \in Callers, ok \in BOOLEAN : ConnectOpen(c, ok)
    \/ \E c \in Callers : CloseBegin(c)
    \/ \E c \in Callers : CloseEnd(c)

SpecReconnect == Init /\ [][NextReconnect]_vars

\* subscription calls on a client that connects and closes; no inbound frame
NextSubscribe ==
    \/ \E t \in 1..Len(tasks) : TaskStart(t)
    \/ \E t \in 1..Len(tasks) : TaskCancelled(t)
    \/ \E c \in Callers : ConnectBegin(c)
    \/ \E c \in Callers, tok \in BOOLEAN : ConnectToken(c, tok)
    \/ \E c \in Callers : ConnectAwaited(c)
    \/ \E c \in Callers, ok \in BOOLEAN : ConnectOpen(c, ok)
    \/ \E c \in Callers : CloseBegin(c)
    \/ \E c \in Callers : CloseEnd(c)
    \/ \E c \in Callers, g \in Groups, cs \in CodeLists, r \in Refresh :
          RegisterTick(c, g, cs, r)
    \/ \E c \in Callers, g \in Groups, cs \in CodeLists, r \in Refresh :
          RegisterHoga(c, g, cs, r)
    \/ \E c \in Callers, g \in Groups, ty \in TypeArgs : RemoveRegister(c, g, ty)

SpecSubscribe == Init /\ [][NextSubscribe]_vars

\* handlers registered and registered again on one connection that receives
\* frames routed to registered and to unregistered keys
RegistryKeys == {"ping", "0b"}
RegistryFrames == {FramePing, FrameRealMixed}

NextRegistry ==
    \/ \E f \in RegistryFrames : ServerFrame(f)
    \/ \E t \in 1..Len(tasks) : TaskStart(t)
    \/ \E t \in 1..Len(tasks) : TaskWake(t)
    \/ \E i \in 1..Len(invs) : InvStart(i)
    \/ \E i \in 1..Len(invs) : InvFinish(i)
    \/ \E c \in Callers : ConnectBegin(c) /\ tasks = <<>>
    \/ \E c \in Callers : ConnectToken(c, TRUE)
    \/ \E c \in Callers : ConnectOpen(c, TRUE)
    \/ \E c \in Callers, k \in RegistryKeys, h \in UserHandlers : AddCallback(c, k, h)

SpecRegistry == Init /\ [][NextRegistry]_vars

\* control frames, and a REAL frame whose items carry the control keys and
\* the key REAL as their types, on one connection; a handler registered
\* under REAL
FrameRealControl ==
    RawFrame("REAL", TRUE, <<Item("PING"), Item("LOGIN"), Item("REAL")>>, NoCode)
ControlFrames == {FramePing, FrameLoginOk, FrameRealControl}
ControlKeys == {"real"}

NextControl ==
    \/ \E f \in ControlFrames : ServerFrame(f)
    \/ \E t \in 1..Len(tasks) : TaskStart(t)
    \/ \E t \in 1..Len(tasks) : TaskWake(t)
    \/ \E i \in 1..Len(invs) : InvStart(i)
    \/ \E i \in 1..Len(invs) : InvFinish(i)
    \/ \E c \in Callers : ConnectBegin(c) /\ tasks = <<>>
    \/ \E c \in Callers : ConnectToken(c, TRUE)
    \/ \E c \in Callers : ConnectOpen(c, TRUE)
    \/ \E c \in Callers, k \in ControlKeys, h \in UserHandlers : AddCallback(c, k, h)

SpecControl == Init /\ [][NextControl]_vars

\* connect() called from two tasks of the user: a call can begin while the
\* other is suspended at any of its awaits
NextOverlap ==
    \/ \E t \in 1..Len(tasks) : TaskStart(t)
    \/ \E t \in 1..Len(tasks) : TaskCancelled(t)
    \/ \E c \in Overlapping : ConnectBegin(c)
    \/ \E c \in Overlapping, tok \in BOOLEAN : ConnectToken(c, tok)
    \/ \E c \in Overlapping : ConnectAwaited(c)
    \/ \E c \in Overlapping, ok \in BOOLEAN : ConnectOpen(c, ok)

SpecOverlap == Init /\ [][NextOverlap]_vars

-----------------------------------------------------------------------------
(* Properties                                                               *)

ActiveTasks == {t \in 1..Len(tasks) : ~TaskDone(tasks[t])}

\* C1: with connect() called again after it returned, every receive task but
\* the newest has terminated, so at most one is active in every state; and the
\* step that creates a receive task finds every earlier one terminated and
\* leaves the new one, held by _read_socket_task, as the only active task.
C1_OneReceiveTask ==
    /\ [](Cardinality(ActiveTasks) <= 1)
    /\ [][Len(tasks') > Len(tasks) =>
            /\ \A t \in 1..Len(tasks) : TaskDone(tasks[t])
            /\ ActiveTasks' = {readTask'}]_vars

\* the second connect() returned: the first task was cancelled and has ended,
\* the second is active
C1_Witness ==
    /\ Len(tasks) = 2
    /\ tasks[1].cancel /\ TaskDone(tasks[1])
    /\ ActiveTasks = {2} /\ readTask = 2
    /\ call[1].pc = "idle" /\ last.op = "connect" /\ last.exc = NoErr

\* C2: at most K = WEBSOCKET_MAX_CONCURRENCY handler bodies execute in any
\* state, however many callback tasks are scheduled; a scheduled callback task
\* is never dropped (it stays scheduled until it executes); and with handler
\* bodies that end, whenever callback tasks wait for a permit there comes a
\* state where none waits any more: each of them has come to execute.
C2_ConcurrencyCap ==
    /\ [](Cardinality(Executing) <= WEBSOCKET_MAX_CONCURRENCY)
    /\ [][\A i \in 1..Len(invs) :
            /\ i <= Len(invs')
            /\ invs[i].st = "scheduled" => invs'[i].st \in {"scheduled", "running"}]_vars
    /\ (Waiting # {}) ~> (Waiting = {})

\* every permit is taken and a further callback task waits for one
C2_Witness ==
    /\ Cardinality(Executing) = WEBSOCKET_MAX_CONCURRENCY
    /\ semaphore = 0
    /\ Waiting # {}

\* callback tasks created for the n-th frame taken from the queue, and the
\* number created for the frames before it
InvsOf(n) == {i \in 1..Len(invs) : invs[i].fid = n}
InvsBefore(n) == Cardinality({i \in 1..Len(invs) : invs[i].fid < n})

\* C3: a decodable frame with trnm REAL and a list of N items has exactly N
\* callback tasks, created in the order of the items, the k-th keyed by the
\* k-th item's type and given the raw frame; a decodable frame with any other
\* trnm has exactly one, keyed by trnm and given the raw frame.
C3_OneCallbackPerItem ==
    \A n \in 1..Len(taken) :
        LET raw == taken[n].raw
            first == InvsBefore(n)
        IN /\ (raw.json /\ raw.trnm = "REAL" /\ raw.hasData) =>
                /\ InvsOf(n) = (first + 1)..(first + Len(raw.data))
                /\ \A k \in 1..Len(raw.data) :
                      /\ invs[first + k].idx = k
                      /\ invs[first + k].key = raw.data[k].type
                      /\ invs[first + k].raw = raw
           /\ (raw.json /\ raw.trnm # "REAL") =>
                /\ InvsOf(n) = {first + 1}
                /\ invs[first + 1].key = raw.trnm
                /\ invs[first + 1].raw = raw

\* a REAL frame of three items of two types and a PING frame were dispatched
C3_Witness ==
    /\ \E n \in 1..Len(taken) :
          taken[n].raw = FrameRealMixed /\ Cardinality(InvsOf(n)) = 3
    /\ \E n \in 1..Len(taken) :
          taken[n].raw = FramePing /\ Cardinality(InvsOf(n)) = 1

\* a frame that decodes and, when its trnm is REAL, carries a list of items
Routable(raw) == raw.json /\ (raw.trnm = "REAL" => raw.hasData)

\* C4: a callback task created for a key that had no entry in the registry
\* runs the default handler; no routable frame is an error of the receive loop,
\* and a receive task is in its error path only after a frame that is not
\* routable (so an unregistered key leaves the loop running and the
\* connection as it was).
C4_UnregisteredToDefault ==
    /\ [](/\ \A n \in 1..Len(taken) :
               Routable(taken[n].raw) => taken[n].err = NoErr
          /\ \A t \in 1..Len(tasks) :
               tasks[t].pc \in {"closing", "failed"} =>
                  \E n \in 1..Len(taken) :
                     taken[n].by = t /\ ~Routable(taken[n].raw))
    /\ [][\A i \in (Len(invs) + 1)..Len(invs') :
            invs'[i].key \notin DOMAIN callbacks =>
               invs'[i].handler = DefaultHandler]_vars

\* a frame with an unregistered trnm and a REAL frame with unregistered item
\* types were dispatched to the default handler; the loop waits for the next
\* frame on an open connection
C4_Witness ==
    /\ \E i \in 1..Len(invs) :
          invs[i].key = "REG" /\ invs[i].handler = DefaultHandler /\ invs[i].st = "done"
    /\ \E i \in 1..Len(invs) :
          invs[i].key = "0D" /\ invs[i].handler = DefaultHandler
    /\ readTask # 0 /\ tasks[readTask].pc = "get"
    /\ socket.open /\ ~stopEvent

\* what callback task i has written to the transport
SentBy(i) == {j \in 1..Len(sent) : sent[j].by = i}

\* C5 as claimed: only frames whose trnm is PING are echoed
C5_OnlyPingFramesEchoed ==
    \A j \in 1..Len(sent) :
        sent[j].by # 0 => invs[sent[j].by].raw.trnm = "PING"

\* C5, amended: with the default PING handler in place a PING frame taken
\* from the queue gets one callback task running that handler; such a task
\* has sent nothing before its body ends and, once it has ended normally (on an
\* open transport), exactly one frame: the raw frame as text; and whatever a
\* callback task sent is the echo of a frame routed to the key PING, which is
\* a frame with trnm PING or a REAL frame with an item of type PING.
C5_PingEchoedVerbatim ==
    /\ \A n \in 1..Len(taken) :
          (taken[n].raw.json /\ taken[n].raw.trnm = "PING"
             /\ callbacks["PING"] = PingHandler) =>
                \E i \in 1..Len(invs) :
                    InvsOf(n) = {i} /\ invs[i].handler = PingHandler
    /\ \A i \in 1..Len(invs) :
          invs[i].handler = PingHandler =>
             IF invs[i].st = "done"
             THEN \E j \in 1..Len(sent) :
                    /\ SentBy(i) = {j}
                    /\ sent[j].fmt = "text"
                    /\ sent[j].body = invs[i].raw
             ELSE SentBy(i) = {}
    /\ \A j \in 1..Len(sent) :
          sent[j].by # 0 =>
             LET inv == invs[sent[j].by] IN
             /\ inv.handler = PingHandler /\ inv.key = "PING"
             /\ \/ inv.raw.trnm = "PING"
                \/ /\ inv.raw.trnm = "REAL"
                   /\ \E k \in 1..Len(inv.raw.data) : inv.raw.data[k].type = "PING"

\* a PING frame and a REAL frame with a PING item have both been echoed
C5_Witness ==
    /\ \E j \in 1..Len(sent) : sent[j].by # 0 /\ sent[j].body = FramePing
    /\ \E j \in 1..Len(sent) : sent[j].by # 0 /\ sent[j].body = FrameRealPing

\* C6 as claimed: a LOGIN frame with return_code 0 is handled without error;
\* once the LOGIN handler has raised LoginFailure, the receive task that
\* dispatched the frame is in its error path or the connection is closed (stop
\* event set, transport closed).
C6_LoginFailureCloses ==
    \A i \in 1..Len(invs) :
        /\ (invs[i].handler = LoginHandler /\ invs[i].raw.return_code = "0") =>
              invs[i].exc = NoErr
        /\ invs[i].exc = "LoginFailure" =>
              \/ tasks[taken[invs[i].fid].by].pc \in {"closing", "failed"}
              \/ stopEvent /\ ~socket.open

\* the step is a call of op: the call counter moves and last names op
Called(ops) == nCalls' = nCalls + 1 /\ last'.op \in ops

RegisterOps == {"register_tick", "register_hoga"}

\* C7: register_tick and register_hoga with more than 100 codes fail with
\* InvalidArgument and write nothing to the transport; with 0 to 100 codes
\* they do not fail on the length and, the transport being open, write
\* exactly one frame.
C7_CodesLimit ==
    [][Called(RegisterOps) =>
         IF Len(last'.args[2]) > MaxCodes
         THEN last'.exc = "InvalidArgument" /\ sent' = sent
         ELSE /\ last'.exc # "InvalidArgument"
              /\ socket.open => (last'.exc = NoErr /\ Len(sent') = Len(sent) + 1)]_vars

\* register_hoga with exactly 100 codes went out as one frame
C7_Witness ==
    /\ last.op = "register_hoga" /\ Len(last.args[2]) = MaxCodes
    /\ last.exc = NoErr /\ Len(sent) = last.before + 1

\* C8: a register_tick / register_hoga call that succeeds appends one REG
\* frame to the transport: grp_no and refresh as given, data one entry whose
\* item is the list of codes as given and whose type is ["0B"] for
\* register_tick, ["0D"] for register_hoga; it changes nothing of the client.
C8_RegFrame ==
    [][(Called(RegisterOps) /\ last'.exc = NoErr) =>
         /\ sent' = Append(sent,
               [fmt |-> "json", by |-> 0,
                body |-> [trnm |-> "REG", grp_no |-> last'.args[1],
                          refresh |-> last'.args[3],
                          data |-> <<[item |-> last'.args[2],
                                      type |-> IF last'.op = "register_tick"
                                               THEN <<"0B">> ELSE <<"0D">>]>>]])
         /\ UNCHANGED <<token, queue, socket, stopEvent, readTask, tasks,
                        callbacks, semaphore, invs, taken, call>>]_vars

\* register_hoga sent 100 codes given in descending order
C8_Witness ==
    /\ last.op = "register_hoga" /\ last.exc = NoErr
    /\ last.args = <<"1", Codes(MaxCodes, "desc"), "0">>
    /\ Len(sent) = 1
    /\ sent[1].body.data[1].item[1] = MaxCodes
    /\ sent[1].body.data[1].type = <<"0D">>

C10_FatalErrorCloses ==
    /\ [](/\ \A n \in 1..Len(taken) :
               taken[n].err # NoErr =>
                  /\ tasks[taken[n].by].pc \in {"closing", "failed", "cancelled"}
                  /\ \A m \in (n + 1)..Len(taken) : taken[m].by # taken[n].by
          /\ \A t \in 1..Len(tasks) : tasks[t].pc = "closing" => stopEvent)
    /\ [][/\ \A t \in 1..Len(tasks) :
               (tasks[t].pc # "failed" /\ tasks'[t].pc = "failed") =>
                  (stopEvent' /\ ~socket'.open)
          /\ Len(tasks') > Len(tasks) =>
               \E c \in Callers : call[c].pc = "open" /\ last.op = "connect"]_vars

\* the task ended with the error of a frame that does not decode: the
\* connection is closed, the frame behind it is still in the queue, no other
\* task exists
C10_Witness ==
    /\ Len(tasks) = 1 /\ tasks[1].pc = "failed"
    /\ Len(taken) = 1 /\ taken[1].err = "decode"
    /\ queue # <<>>
    /\ stopEvent /\ ~socket.open

\* a close() call has returned and no call is in progress
CloseReturned == last.op = "close" /\ \A c \in Callers : call[c].pc = "idle"

\* the receive task t can run: the event loop has a step of it to take
TaskCanRun(t) ==
    ENABLED (TaskStart(t) \/ TaskWake(t) \/ TaskCloseRaise(t) \/ TaskCancelled(t))

\* C11 as claimed: when close() has returned the stop event is set and the
\* transport closed, and the receive task has terminated or is on its way to:
\* it can run without a further frame arriving (a task that has not terminated
\* and cannot run never terminates by itself).
C11_CloseEndsReceiveTask ==
    CloseReturned =>
        /\ stopEvent /\ ~socket.open
        /\ \A t \in ActiveTasks : TaskCanRun(t)

\* the step is one of the two stretches of a close() call
CloseStep ==
    \E c \in Callers :
        \/ call[c].pc = "idle" /\ call'[c].pc = "close"
        \/ call[c].pc = "close" /\ call'[c].pc = "idle"

\* what a close() that returned leaves: stop event set, transport closed
Closed == stopEvent /\ socket = SocketClosed

\* C12: close() raises in no state and creates no receive task; when it has
\* returned the client is Closed; and a close() called on a client that is
\* Closed already (closed before, or never connected and closed once) changes
\* nothing of the client, so that a second close() leaves the state the first
\* one left.
C12_CloseIdempotent ==
    /\ [](CloseReturned => (Closed /\ last.exc = NoErr))
    /\ [][CloseStep =>
            /\ last'.op = "close" /\ last'.exc = NoErr
            /\ stopEvent'
            /\ tasks' = tasks /\ readTask' = readTask
            /\ Closed => UNCHANGED <<token, queue, socket, stopEvent, readTask,
                                     tasks, callbacks, semaphore, invs, taken,
                                     sent, nRecv, nCalls>>]_vars

\* a close() is in progress on a client an earlier close() left Closed: the
\* receive task of the one connection still waits and was never cancelled, so
\* no connect() and no error of the loop closed the transport
C12_Witness ==
    /\ \E c \in Callers : call[c].pc = "close"
    /\ Closed
    /\ Len(tasks) = 1 /\ tasks[1].pc = "get" /\ ~tasks[1].cancel

\* C13 as claimed: a connect() that finds no token fails with
\* AuthenticationError, leaves the transport as it was, creates no receive
\* task, and leaves no receive task active, whatever the state it was
\* called in.
C13_NoTokenDisconnects ==
    [][\A c \in Callers :
          (call[c].pc = "token" /\ call'[c].pc = "idle") =>
             /\ ~token' /\ last'.exc = "AuthenticationError"
             /\ socket' = socket
             /\ tasks' = tasks
             /\ ActiveTasks' = {}]_vars

\* C14: a step of the receive loop that takes frames from the queue runs no
\* handler and waits for none: it creates callback tasks, all of them still
\* scheduled when the step ends, leaves every earlier callback task, the
\* semaphore and the transport's output as they were, and goes on taking
\* frames until the queue is empty or the stop event is set, whatever the
\* callback tasks of earlier frames are doing.
C14_LoopNeverWaitsForHandlers ==
    [][Len(taken') > Len(taken) =>
         /\ Len(invs') >= Len(invs)
         /\ \A i \in 1..Len(invs) : invs'[i] = invs[i]
         /\ \A i \in (Len(invs) + 1)..Len(invs') : invs'[i].st = "scheduled"
         /\ semaphore' = semaphore /\ sent' = sent
         /\ queue' = <<>> \/ stopEvent']_vars

\* every permit is held by a handler body of the first frame that has not
\* returned, one more callback task of that frame waits for a permit, and the
\* second frame has been taken and dispatched all the same
C14_Witness ==
    /\ Len(taken) = 2
    /\ semaphore = 0
    /\ Cardinality(Executing) = WEBSOCKET_MAX_CONCURRENCY
    /\ \A i \in InvsOf(1) : invs[i].st \in {"scheduled", "running"}
    /\ Executing \subseteq InvsOf(1)
    /\ InvsOf(2) # {}

\* the frames in the order they arrived: those taken, then those waiting
Arrived == [n \in 1..Len(taken) |-> taken[n].raw] \o queue

\* C15: frames are taken from the queue in the order they arrived, none
\* skipped; callback tasks are created in the order of the frames and, for
\* one REAL frame, in the order of its items, and that order never changes
\* afterwards.  (Nothing is claimed of the order in which they end.)
C15_DispatchInArrivalOrder ==
    /\ [](\A i, j \in 1..Len(invs) :
            i < j => \/ invs[i].fid < invs[j].fid
                     \/ invs[i].fid = invs[j].fid /\ invs[i].idx < invs[j].idx)
    /\ [][/\ \/ Arrived' = Arrived
              \/ \E f \in Frames : Arrived' = Append(Arrived, f)
          /\ Len(invs') >= Len(invs)
          /\ \A i \in 1..Len(invs) :
                invs'[i].fid = invs[i].fid /\ invs'[i].idx = invs[i].idx]_vars

\* two frames were dispatched in their order of arrival and the handler of
\* the second has ended while that of the first still runs
C15_Witness ==
    /\ Len(taken) = 2
    /\ \E i, j \in 1..Len(invs) :
          /\ invs[i].fid = 1 /\ invs[j].fid = 2
          /\ invs[i].st = "running" /\ invs[j].st = "done"

\* callback tasks whose handler body has ended, by return or by raise
Finished == {i \in 1..Len(invs) : invs[i].st \in {"done", "failed"}}

\* C16: in every state the free permits and the executing handler bodies
\* add up to K = WEBSOCKET_MAX_CONCURRENCY, and the permits are all free when
\* every callback task has ended; a step in which a handler body starts takes
\* exactly one permit, a step in which one ends, by return or by raise, gives
\* exactly one back, and no other step moves the semaphore.
C16_PermitsConserved ==
    /\ [](/\ semaphore + Cardinality(Executing) = WEBSOCKET_MAX_CONCURRENCY
          /\ Finished = 1..Len(invs) => semaphore = WEBSOCKET_MAX_CONCURRENCY)
    /\ [][semaphore' - semaphore =
            Cardinality(Finished' \ Finished) - Cardinality(Executing' \ Executing)]_vars

\* handler bodies have failed (a login refused, a ping echo on a closed
\* transport) and others returned; every callback task has ended and the
\* permits are all free again
C16_Witness ==
    /\ \E i \in 1..Len(invs) : invs[i].st = "failed"
    /\ \E i \in 1..Len(invs) : invs[i].st = "done"
    /\ Finished = 1..Len(invs)
    /\ semaphore = WEBSOCKET_MAX_CONCURRENCY

\* the key add_callback_on_real_data is expected to store under
UpperOf(k) ==
    CASE k = "ping" -> "PING"
      [] k = "0b" -> "0B"
      [] OTHER -> k

RegistrationOps == {"add_callback_on_real_data"}

\* C17: add_callback_on_real_data(k, h) leaves the registry with h under the
\* uppercased k, whatever was there (the default PING handler included), and
\* with every other entry as it was; an entry stays as it is until the next
\* registration; and a callback task created for a key that has an entry
\* runs the handler the entry holds at that time: the last one registered
\* under that key, none registered before it.
C17_RegisterOverwrites ==
    /\ [][Called(RegistrationOps) =>
            LET K == UpperOf(last'.args[1]) IN
            /\ DOMAIN callbacks' = DOMAIN callbacks \cup {K}
            /\ callbacks'[K] = last'.args[2]
            /\ \A k \in DOMAIN callbacks \ {K} : callbacks'[k] = callbacks[k]]_vars
    /\ [][~Called(RegistrationOps) =>
            \A k \in DOMAIN callbacks :
                k \in DOMAIN callbacks' /\ callbacks'[k] = callbacks[k]]_vars
    /\ [][\A i \in (Len(invs) + 1)..Len(invs') :
            invs'[i].key \in DOMAIN callbacks =>
               invs'[i].handler = callbacks[invs'[i].key]]_vars

\* h1 was registered for 0B and an item of type 0B went to it; then h2 was
\* registered under "0b" and a later item of type 0B went to h2; the entries
\* for PING and LOGIN are the default ones still
C17_Witness ==
    /\ last.op = "add_callback_on_real_data" /\ last.args = <<"0b", "h2">>
    /\ callbacks["0B"] = "h2"
    /\ callbacks["PING"] = PingHandler /\ callbacks["LOGIN"] = LoginHandler
    /\ \E i, j \in 1..Len(invs) :
          /\ invs[i].fid < invs[j].fid
          /\ invs[i].key = "0B" /\ invs[i].handler = "h1"
          /\ invs[j].key = "0B" /\ invs[j].handler = "h2"

C19_CancelWhileWaitingIsCleanExit ==
    [][\A t \in 1..Len(tasks) :
          (tasks[t].pc = "get" /\ tasks[t].cancel /\ tasks'[t].pc # "get") =>
             /\ tasks'[t].pc = "done"
             /\ UNCHANGED <<queue, taken, invs, callbacks, sent, socket,
                            stopEvent>>]_vars

\* the first receive task was cancelled while it waited and has returned;
\* it took no frame, and the frame that had arrived is still in the queue
C19_Witness ==
    /\ Len(tasks) >= 1
    /\ tasks[1].pc = "done" /\ tasks[1].cancel
    /\ taken = <<>> /\ invs = <<>>
    /\ queue # <<>>

\* C20 as claimed: with connect() calls that overlap, at most one receive
\* task is active in every state, and an active receive task is the one
\* _read_socket_task refers to.
C20_OverlappingConnectsOneTask ==
    /\ Cardinality(ActiveTasks) <= 1
    /\ ActiveTasks \subseteq {readTask}

\* C21 as claimed: every callback task was created for a frame that the
\* receive task which dispatched it received on its own connection, that is,
\* a frame that reached the queue after that receive task was created.
C21_OwnConnectionFramesOnly ==
    \A i \in 1..Len(invs) :
        invs[i].fid > tasks[taken[invs[i].fid].by].since

\* C22 as claimed: from the state in which close() has returned until the
\* next connect() is called, no step creates a callback task.
C22_NoDispatchAfterClose ==
    [][(CloseReturned /\ stopEvent) => Len(invs') = Len(invs)]_vars

\* C23: the step in which connect() ends because socket.connect raised
\* leaves no receive task active: the task _read_socket_task refers to, if
\* there is one, has terminated (it was cancelled and awaited by this call
\* when it was still running, and then the stop event is set); the step
\* creates no task and leaves _read_socket_task and the stop event as they
\* were.
C23_OpenFailureLeavesNoTask ==
    [][\A c \in Callers :
          (call[c].pc = "open" /\ call'[c].pc = "idle"
             /\ last'.exc = "ConnectionError") =>
             /\ ActiveTasks' = {}
             /\ tasks' = tasks /\ readTask' = readTask
             /\ stopEvent' = stopEvent
             /\ (readTask # 0 /\ tasks[readTask].cancel) =>
                   (TaskDone(tasks[readTask]) /\ stopEvent')]_vars

\* the second connect() cancelled and awaited the task of the first, then
\* failed to open the transport: no task is active, no second task exists,
\* the stop event is set
C23_Witness ==
    /\ last.op = "connect" /\ last.exc = "ConnectionError"
    /\ \A c \in Callers : call[c].pc = "idle"
    /\ Len(tasks) = 1 /\ readTask = 1
    /\ tasks[1].cancel /\ TaskDone(tasks[1])
    /\ stopEvent /\ ~socket.open

\* C24: a decodable frame with trnm REAL and no data (absent or null) is an
\* error of the loop: no callback task is created for it, the task that took
\* it takes no further frame, close() is invoked (the stop event is set) and
\* the task ends with the error once the transport is closed; a REAL frame
\* with an empty data list gets no callback task either and is no error: if
\* the task that took it is in its error path, that is for a later frame.
C24_RealWithoutDataIsFatal ==
    \A n \in 1..Len(taken) :
        LET raw == taken[n].raw
            t == taken[n].by
        IN /\ (raw.json /\ raw.trnm = "REAL" /\ ~raw.hasData) =>
                /\ taken[n].err # NoErr
                /\ InvsOf(n) = {}
                /\ tasks[t].pc \in {"closing", "failed"}
                /\ stopEvent
                /\ tasks[t].pc = "failed" => ~socket.open
                /\ \A m \in (n + 1)..Len(taken) : taken[m].by # t
           /\ (raw.json /\ raw.trnm = "REAL" /\ raw.hasData /\ raw.data = <<>>) =>
                /\ taken[n].err = NoErr
                /\ InvsOf(n) = {}
                /\ tasks[t].pc \in {"closing", "failed"} =>
                      \E m \in (n + 1)..Len(taken) :
                          taken[m].by = t /\ taken[m].err # NoErr

\* a REAL frame with an empty list was taken and the loop went on; the REAL
\* frame without data behind it ended the task; no callback task exists
C24_Witness ==
    /\ Len(taken) = 2
    /\ taken[1].raw = FrameRealEmpty /\ taken[1].err = NoErr
    /\ taken[2].raw = FrameRealNoData /\ taken[2].err # NoErr
    /\ tasks[1].pc = "failed"
    /\ invs = <<>>
    /\ stopEvent /\ ~socket.open

\* callback tasks whose handler body has been entered
Invoked == {i \in 1..Len(invs) : invs[i].st # "scheduled"}

\* C25 as claimed: a handler found under PING or LOGIN is invoked for frames
\* with that trnm only, and no handler is ever invoked under the key REAL.
C25_ControlHandlersOnlyForControlFrames ==
    \A i \in Invoked :
        /\ invs[i].key \in {"PING", "LOGIN"} => invs[i].raw.trnm = invs[i].key
        /\ invs[i].key # "REAL"

\* C25, amended: a callback task is created either for a frame whose trnm is
\* not REAL, under that trnm, or for an item of a REAL frame, under the
\* item's type, whatever that type is (PING, LOGIN and REAL included); it runs
\* the handler the registry gives for its key at that time.  So the handler
\* under REAL is never run for a REAL frame as such.
C25_HandlersByKey ==
    /\ [](\A i \in 1..Len(invs) :
            IF invs[i].idx = 0
            THEN invs[i].raw.trnm = invs[i].key /\ invs[i].key # "REAL"
            ELSE /\ invs[i].raw.trnm = "REAL"
                 /\ invs[i].raw.data[invs[i].idx].type = invs[i].key)
    /\ [][\A i \in (Len(invs) + 1)..Len(invs') :
            invs'[i].handler = Lookup(callbacks, invs'[i].key)]_vars

\* the items of one REAL frame have run the default PING handler (which
\* echoed the frame), the default LOGIN handler (which raised), and the
\* handler registered under REAL
C25_Witness ==
    \E i, j, k \in Invoked :
        /\ invs[i].raw = FrameRealControl /\ invs[i].key = "PING"
        /\ invs[i].handler = PingHandler /\ invs[i].st = "done" /\ SentBy(i) # {}
        /\ invs[j].raw = FrameRealControl /\ invs[j].key = "LOGIN"
        /\ invs[j].handler = LoginHandler /\ invs[j].exc = "LoginFailure"
        /\ invs[k].raw = FrameRealControl /\ invs[k].key = "REAL"
        /\ invs[k].handler \in UserHandlers

====
